---- MODULE Spec2Model ----
(***************************************************************************)
(* Verification model of the math2d 2D geometry library (Connicpu/math2d). *)
(*                                                                         *)
(* The library is a set of pure functions over f32 value types.  The model *)
(* computes every operation over exact rational numbers, written <<n, d>>  *)
(* in lowest terms with d > 0; IEEE rounding is abstracted away, so an     *)
(* equation that holds here holds in f32 wherever the arithmetic is exact. *)
(* Angles are sampled on a grid of twelve directions per full turn whose   *)
(* sines and cosines are rational (the quarter turns and the 3-4-5         *)
(* triangle's angles); an angle is the integer index of its direction and  *)
(* index + 12 is the same direction one full turn later.                   *)
(*                                                                         *)
(* Every specification below draws the inputs of a call in its initial     *)
(* state (variable in), and each action applies one library operation to   *)
(* them, recording which (variable op) and what it returned (variable out).*)
(***************************************************************************)
EXTENDS Integers, Sequences, FiniteSets, TLC

VARIABLES op, in, out

vars == <<op, in, out>>

----------------------------------------------------------------------------
(* Exact rational arithmetic standing for f32 arithmetic.                  *)

RECURSIVE Gcd(_, _)
Gcd(m, n) == IF n = 0 THEN m ELSE Gcd(n, m % n)

IAbs(n) == IF n < 0 THEN -n ELSE n

\* The rational n/d (d # 0) in lowest terms with a positive denominator.
Norm(n, d) ==
    LET g == Gcd(IAbs(n), IAbs(d))
        s == IF d < 0 THEN -1 ELSE 1
    IN  <<s * (n \div g), s * (d \div g)>>

\* The integer n as a rational.
R(n) == <<n, 1>>

\* The value of a division by zero (f32 gives an infinity or a NaN).  It
\* propagates through the arithmetic and every comparison with it is false,
\* as for a NaN and as for x <= y with x the positive infinity.
NaN == <<0, 0>>

IsNum(x) == x[2] # 0

RNeg(x) == <<-x[1], x[2]>>

RAbs(x) == <<IAbs(x[1]), x[2]>>

RAdd(x, y) ==
    LET g == Gcd(x[2], y[2])
    IN  IF x[2] = 1 /\ y[2] = 1 THEN <<x[1] + y[1], 1>>
        ELSE IF x[2] = 0 \/ y[2] = 0 THEN NaN
        ELSE Norm(x[1] * (y[2] \div g) + y[1] * (x[2] \div g), (x[2] \div g) * y[2])

RSub(x, y) == RAdd(x, RNeg(y))

RMul(x, y) ==
    LET g1 == Gcd(IAbs(x[1]), y[2])
        g2 == Gcd(IAbs(y[1]), x[2])
    IN  IF x[2] = 0 \/ y[2] = 0 THEN NaN
        ELSE IF x[1] = 0 \/ y[1] = 0 THEN <<0, 1>>
        ELSE IF x[2] = 1 /\ y[2] = 1 THEN <<x[1] * y[1], 1>>
        ELSE <<(x[1] \div g1) * (y[1] \div g2), (x[2] \div g2) * (y[2] \div g1)>>

RDiv(x, y) ==
    IF y[1] = 0 THEN NaN
    ELSE RMul(x, Norm(y[2], y[1]))

\* An integer is compared with a fraction through the fraction's floor
\* (\div rounds down), so that no large product is formed.
RLt(x, y) ==
    LET g == Gcd(x[2], y[2])
    IN  IF x[2] = 1 /\ y[2] = 1 THEN x[1] < y[1]
        ELSE IF x[2] = 0 \/ y[2] = 0 THEN FALSE
        ELSE IF x[2] = 1 THEN x[1] <= y[1] \div y[2]
        ELSE IF y[2] = 1 THEN x[1] \div x[2] < y[1]
        ELSE x[1] * (y[2] \div g) < y[1] * (x[2] \div g)

RLe(x, y) ==
    LET g == Gcd(x[2], y[2])
    IN  IF x[2] = 1 /\ y[2] = 1 THEN x[1] <= y[1]
        ELSE IF x[2] = 0 \/ y[2] = 0 THEN FALSE
        ELSE IF x[2] = 1 THEN x[1] <= y[1] \div y[2]
        ELSE IF y[2] = 1 THEN x[1] \div x[2] < y[1]
        ELSE x[1] * (y[2] \div g) <= y[1] * (x[2] \div g)

RGt(x, y) == RLt(y, x)

----------------------------------------------------------------------------
(* Trigonometry on the sampled angles.                                     *)

\* Five times the cosine of each of the twelve sampled directions of a full
\* turn, counter-clockwise from angle 0: the quarter turns and the angles of
\* the 3-4-5 triangle.  Angle i is direction i modulo 12.
CosTimes5 == <<5, 4, 3, 0, -3, -4, -5, -4, -3, 0, 3, 4>>

\* The number of sampled directions in a full turn (2*PI).
FullTurn == Len(CosTimes5)

\* A quarter turn (PI/2).
QuarterTurn == FullTurn \div 4

cos(angle) == Norm(CosTimes5[(angle % FullTurn) + 1], 5)

sin(angle) == cos(angle - QuarterTurn)

\* The tangent; at odd quarter turns, where the cosine is zero, NaN stands for
\* the huge value f32 returns, and no sampled call takes such an angle.
tan(angle) == RDiv(sin(angle), cos(angle))

\* Whether the vector (x, y) points in one of the sampled directions.
OnGrid(y, x) ==
    \/ (y = R(0) /\ x = R(0))
    \/ \E i \in 0..(FullTurn - 1) :
          /\ RMul(sin(i), x) = RMul(cos(i), y)
          /\ RGt(RAdd(RMul(cos(i), x), RMul(sin(i), y)), R(0))

\* f32::atan2: the angle of the vector (x, y), in (-PI, PI]; atan2(0, 0) is 0.
\* Defined for the vectors that are OnGrid.
atan2(y, x) ==
    IF y = R(0) /\ x = R(0) THEN 0
    ELSE CHOOSE i \in (1 - FullTurn \div 2)..(FullTurn \div 2) :
            /\ RMul(sin(i), x) = RMul(cos(i), y)
            /\ RGt(RAdd(RMul(cos(i), x), RMul(sin(i), y)), R(0))

\* Whether the natural number n is a perfect square.
IsSquareNat(n) == \E r \in 0..n : r * r = n

\* Whether the square root of the rational x >= 0 is rational.
IsSquare(x) == x[1] >= 0 /\ IsSquareNat(x[1]) /\ IsSquareNat(x[2])

\* f32::sqrt, defined for the rationals that are IsSquare.
sqrt(x) ==
    <<CHOOSE r \in 0..x[1] : r * r = x[1], CHOOSE r \in 1..x[2] : r * r = x[2]>>

----------------------------------------------------------------------------
(* Matrix3x2f: the affine matrix [a b 0; c d 0; x y 1].                    *)

\* std::f32::EPSILON, 2^-23.
EPSILON == <<1, 8388608>>

Matrix3x2f(a, b, c, d, x, y) == [a |-> a, b |-> b, c |-> c, d |-> d, x |-> x, y |-> y]

Point2f(x, y) == [x |-> x, y |-> y]

Vector2f(x, y) == [x |-> x, y |-> y]

\* impl From<f32> for Vector2f.
Vector2f_from_f32(s) == Vector2f(s, s)

ORIGIN == Point2f(R(0), R(0))

\* IDENTITY with d left at zero.
IDENTITY_d_zero == Matrix3x2f(R(1), R(0), R(0), R(0), R(0), R(0))

IDENTITY == Matrix3x2f(R(1), R(0), R(0), R(1), R(0), R(0))

translation(trans) ==
    Matrix3x2f(R(1), R(0), R(0), R(1), trans.x, trans.y)

\* A scaling whose translation has the wrong sign.
scaling_neg_offset(scale, center) ==
    Matrix3x2f(scale.x, R(0), R(0), scale.y,
               RSub(RMul(scale.x, center.x), center.x),
               RSub(RMul(scale.y, center.y), center.y))

scaling(scale, center) ==
    Matrix3x2f(scale.x,
               R(0),
               R(0),
               scale.y,
               RSub(center.x, RMul(scale.x, center.x)),
               RSub(center.y, RMul(scale.y, center.y)))

rotation(angle, center) ==
    LET cs == cos(angle)
        sn == sin(angle)
    IN  Matrix3x2f(cs,
                   sn,
                   RNeg(sn),
                   cs,
                   RSub(RSub(center.x, RMul(cs, center.x)), RMul(sn, center.y)),
                   RSub(RSub(center.y, RMul(cs, center.y)), RMul(sn, center.x)))

skew(angle_x, angle_y, center) ==
    LET tanx == tan(angle_x)
        tany == tan(angle_y)
    IN  Matrix3x2f(R(1),
                   tany,
                   tanx,
                   R(1),
                   RMul(RNeg(center.y), tany),
                   RMul(RNeg(center.x), tanx))

determinant(m) == RSub(RMul(m.a, m.d), RMul(m.b, m.c))

det_shows_invertible_no_abs(det) == RGt(det, EPSILON)

det_shows_invertible(det) == RGt(RAbs(det), EPSILON)

is_invertible(m) == det_shows_invertible(determinant(m))

unchecked_inverse_x_sign(m, det) ==
    Matrix3x2f(RDiv(m.d, det),
               RDiv(m.b, RNeg(det)),
               RDiv(m.c, RNeg(det)),
               RDiv(m.a, det),
               RDiv(RSub(RMul(m.d, m.x), RMul(m.c, m.y)), det),
               RDiv(RSub(RMul(m.b, m.x), RMul(m.a, m.y)), det))

unchecked_inverse(m, det) ==
    Matrix3x2f(RDiv(m.d, det),
               RDiv(m.b, RNeg(det)),
               RDiv(m.c, RNeg(det)),
               RDiv(m.a, det),
               RDiv(RSub(RMul(m.d, m.x), RMul(m.c, m.y)), RNeg(det)),
               RDiv(RSub(RMul(m.b, m.x), RMul(m.a, m.y)), det))

\* The outcome of a call that may panic: the returned values, none after a panic.
Returned(v) == [panicked |-> FALSE, value |-> {v}]

Panicked == [panicked |-> TRUE, value |-> {}]

\* Option<T> as the set of its values: None is {}, Some(v) is {v}.
None == {}

Some(v) == {v}

inverse_nonzero(m) ==
    LET det == determinant(m)
    IN  IF det # R(0) THEN Returned(unchecked_inverse(m, det))
        ELSE Panicked

inverse(m) ==
    LET det == determinant(m)
    IN  IF det_shows_invertible(det) THEN Returned(unchecked_inverse(m, det))
        ELSE Panicked

try_inverse(m) ==
    LET det == determinant(m)
    IN  IF det_shows_invertible(det) THEN Some(unchecked_inverse(m, det))
        ELSE None

compose(scaling_, rotation_, translation_) ==
    LET s == scaling_
        cs == cos(rotation_)
        sn == sin(rotation_)
        trans == translation_
    IN  Matrix3x2f(RMul(s.x, cs),
                   RMul(s.y, sn),
                   RMul(s.x, RNeg(sn)),
                   RMul(s.y, cs),
                   trans.x,
                   trans.y)

Decomposition(scaling_, rotation_, translation_) ==
    [scaling |-> scaling_, rotation |-> rotation_, translation |-> translation_]

\* Whether decompose(m) stays within the model's numbers: both square roots
\* rational and the rotation one of the sampled directions.
Representable(m) ==
    /\ IsSquare(RAdd(RMul(m.a, m.a), RMul(m.c, m.c)))
    /\ IsSquare(RAdd(RMul(m.b, m.b), RMul(m.d, m.d)))
    /\ OnGrid(m.b, m.d)

\* decompose without the square roots of the scaling.
decompose_no_sqrt(m) ==
    Decomposition(Vector2f(RAdd(RMul(m.a, m.a), RMul(m.c, m.c)),
                           RAdd(RMul(m.b, m.b), RMul(m.d, m.d))),
                  atan2(m.b, m.d),
                  Vector2f(m.x, m.y))

\* decompose with the arguments of atan2 exchanged.
decompose_atan2_swapped(m) ==
    Decomposition(Vector2f(sqrt(RAdd(RMul(m.a, m.a), RMul(m.c, m.c))),
                           sqrt(RAdd(RMul(m.b, m.b), RMul(m.d, m.d)))),
                  atan2(m.d, m.b),
                  Vector2f(m.x, m.y))

decompose(m) ==
    Decomposition(Vector2f(sqrt(RAdd(RMul(m.a, m.a), RMul(m.c, m.c))),
                           sqrt(RAdd(RMul(m.b, m.b), RMul(m.d, m.d)))),
                  atan2(m.b, m.d),
                  Vector2f(m.x, m.y))

\* impl From<Decomposition> for Matrix3x2f.
Matrix3x2f_from(decomp) ==
    compose(decomp.scaling, decomp.rotation, decomp.translation)

\* The product with the operands taken in the other order.
Matrix3x2f_mul_swapped(lhs, rhs) ==
    Matrix3x2f(RAdd(RMul(rhs.a, lhs.a), RMul(rhs.b, lhs.c)),
               RAdd(RMul(rhs.a, lhs.b), RMul(rhs.b, lhs.d)),
               RAdd(RMul(rhs.c, lhs.a), RMul(rhs.d, lhs.c)),
               RAdd(RMul(rhs.c, lhs.b), RMul(rhs.d, lhs.d)),
               RAdd(RAdd(RMul(rhs.x, lhs.a), RMul(rhs.y, lhs.c)), lhs.x),
               RAdd(RAdd(RMul(rhs.x, lhs.b), RMul(rhs.y, lhs.d)), lhs.y))

Matrix3x2f_mul(lhs, rhs) ==
    Matrix3x2f(RAdd(RMul(lhs.a, rhs.a), RMul(lhs.b, rhs.c)),
               RAdd(RMul(lhs.a, rhs.b), RMul(lhs.b, rhs.d)),
               RAdd(RMul(lhs.c, rhs.a), RMul(lhs.d, rhs.c)),
               RAdd(RMul(lhs.c, rhs.b), RMul(lhs.d, rhs.d)),
               RAdd(RAdd(RMul(lhs.x, rhs.a), RMul(lhs.y, rhs.c)), rhs.x),
               RAdd(RAdd(RMul(lhs.x, rhs.b), RMul(lhs.y, rhs.d)), rhs.y))

Point2f_mul(p, m) ==
    Point2f(RAdd(RAdd(RMul(p.x, m.a), RMul(p.y, m.c)), m.x),
            RAdd(RAdd(RMul(p.x, m.b), RMul(p.y, m.d)), m.y))

Vector2f_mul(v, m) ==
    Vector2f(RAdd(RMul(v.x, m.a), RMul(v.y, m.c)),
             RAdd(RMul(v.x, m.b), RMul(v.y, m.d)))

----------------------------------------------------------------------------
(* Inversion: is_invertible, inverse, try_inverse on one sampled matrix.   *)

MaxLin == 2

MaxTrans == 1

\* The sampled linear coefficients.
LinVals == {R(n) : n \in -MaxLin..MaxLin}

\* Coefficients at the invertibility threshold: the determinant of a matrix
\* with a of these and b or c zero is a small multiple of EPSILON.
EpsVals == {EPSILON, RNeg(EPSILON), RMul(R(2), EPSILON), RMul(R(-2), EPSILON)}

TransVals == {R(n) : n \in -MaxTrans..MaxTrans}

\* Large coefficients: 1 / EPSILON and half of it.
HugeVals == {RDiv(R(1), EPSILON), RDiv(R(1), RMul(R(2), EPSILON))}

\* The sampled matrices; those with a large coefficient are scalings with a
\* translation.
InvMatrices ==
    {Matrix3x2f(a, b, c, d, x, y) :
        a \in LinVals \cup EpsVals, b \in LinVals, c \in LinVals, d \in LinVals,
        x \in TransVals, y \in TransVals}
    \cup {Matrix3x2f(a, R(0), R(0), d, x, y) :
              a \in HugeVals, d \in LinVals, x \in TransVals, y \in TransVals}

InitInv ==
    /\ op = "init"
    /\ in \in {[m |-> m] : m \in InvMatrices}
    /\ out = {}

IsInvertible ==
    /\ op = "init"
    /\ op' = "is_invertible"
    /\ out' = is_invertible(in.m)
    /\ UNCHANGED in

\* m.inverse(), and the product m * m.inverse() when it returned.
Inverse ==
    /\ op = "init"
    /\ op' = "inverse"
    /\ LET r == inverse(in.m)
       IN  out' = [inv |-> r,
                   product |-> {Matrix3x2f_mul(in.m, i) : i \in r.value}]
    /\ UNCHANGED in

TryInverse ==
    /\ op = "init"
    /\ op' = "try_inverse"
    /\ out' = try_inverse(in.m)
    /\ UNCHANGED in

\* Whether the numbers met while inverting m's inverse stay within the
\* integers of the model checker: a is not one of the EpsVals, whose inverses
\* have several coefficients near 1 / EPSILON that get multiplied together.
InverseStaysSmall(m) == m.a[2] = 1

\* m.inverse().inverse(): the second call is made when the first returned.
InverseInverse ==
    /\ op = "init"
    /\ InverseStaysSmall(in.m)
    /\ op' = "inverse_inverse"
    /\ LET r == inverse(in.m)
       IN  out' = [inv |-> r,
                   again |-> IF r.panicked THEN Panicked
                             ELSE inverse(CHOOSE i \in r.value : TRUE)]
    /\ UNCHANGED in

NextInv == IsInvertible \/ Inverse \/ TryInverse \/ InverseInverse

SpecInv == InitInv /\ [][NextInv]_vars

\* |a*d - b*c| of the input matrix, written out from its coefficients.
AbsDet(m) == RAbs(RSub(RMul(m.a, m.d), RMul(m.b, m.c)))

\* C1: for every matrix M with |a*d - b*c| > EPSILON, M.inverse() returns and
\* M * M.inverse() is exactly the identity matrix.
C1_InverseProductIsIdentity ==
    (op = "inverse" /\ RGt(AbsDet(in.m), EPSILON))
        => (~out.inv.panicked /\ out.product = {IDENTITY})

\* C1 witness: an inverted matrix with shear, translation and a determinant
\* that is not 1 or -1, whose product with its inverse is the identity.
C1_Witness ==
    /\ op = "inverse"
    /\ out.product = {IDENTITY}
    /\ in.m.b # R(0) /\ in.m.c # R(0) /\ in.m.x # R(0) /\ in.m.y # R(0)
    /\ AbsDet(in.m) = R(3)

\* C2: try_inverse returns None exactly when |a*d - b*c| <= EPSILON and
\* Some(matrix) otherwise, whatever the sign of the determinant.
C2_TryInverseNoneIffSmallDet ==
    op = "try_inverse"
        => /\ (out = None) <=> RLe(AbsDet(in.m), EPSILON)
           /\ (out # None) => \E i \in out : out = Some(i) /\ IsNum(i.a)

\* C2 witness: a negative determinant exactly at the threshold, -EPSILON,
\* for which try_inverse returned None.
C2_Witness ==
    /\ op = "try_inverse"
    /\ out = None
    /\ determinant(in.m) = RNeg(EPSILON)

\* C3: inverse panics exactly when is_invertible is false, try_inverse returns
\* None in exactly those cases, and otherwise both return the same matrix;
\* is_invertible is |determinant| > EPSILON.
C3_IsInvertiblePredictsInverse ==
    /\ op = "is_invertible" => (out <=> RGt(AbsDet(in.m), EPSILON))
    /\ op = "inverse"
        => /\ out.inv.panicked <=> ~is_invertible(in.m)
           /\ out.inv.value = try_inverse(in.m)
    /\ op = "try_inverse" => ((out = None) <=> ~is_invertible(in.m))

\* C3 witness: inverse panicked on a matrix whose determinant is not zero
\* but within EPSILON.
C3_Witness ==
    /\ op = "inverse"
    /\ out.inv.panicked
    /\ AbsDet(in.m) = EPSILON

\* C26: for every matrix M with M.is_invertible(), M.inverse() is itself
\* invertible: M.inverse().inverse() does not panic and equals M, also when
\* the determinant of M is very large.
C26_InverseOfInverse ==
    (op = "inverse_inverse" /\ is_invertible(in.m))
        => (~out.again.panicked /\ out.again.value = {in.m})

----------------------------------------------------------------------------
(* Products: matrix * matrix, point * matrix, vector * matrix.             *)

MaxMul == 1

MaxMulTrans == 1

\* The sampled linear coefficients and point coordinates.
MulVals == {R(n) : n \in 0..MaxMul}

\* The sampled translations: negative and not zero, so that every product
\* carries a translation and sums of both signs occur.
MulTransVals == {R(-n) : n \in 1..MaxMulTrans}

MulMatrices ==
    {Matrix3x2f(a, b, c, d, x, y) :
        a \in MulVals, b \in MulVals, c \in MulVals, d \in MulVals,
        x \in MulTransVals, y \in MulTransVals}

InitMul ==
    /\ op = "init"
    /\ in \in {[lhs |-> m] : m \in MulMatrices}
    /\ out = {}

\* (p * lhs) * rhs and p * (lhs * rhs) for a point p.
MulPoint ==
    /\ op = "init"
    /\ \E rhs \in MulMatrices, x \in MulVals, y \in MulVals :
          LET p == Point2f(x, y)
          IN  /\ in' = [lhs |-> in.lhs, rhs |-> rhs, p |-> p]
              /\ out' = [seq |-> Point2f_mul(Point2f_mul(p, in.lhs), rhs),
                         comp |-> Point2f_mul(p, Matrix3x2f_mul(in.lhs, rhs))]
    /\ op' = "mul_point"

\* (v * lhs) * rhs and v * (lhs * rhs) for a vector v.
MulVector ==
    /\ op = "init"
    /\ \E rhs \in MulMatrices, x \in MulVals, y \in MulVals :
          LET v == Vector2f(x, y)
          IN  /\ in' = [lhs |-> in.lhs, rhs |-> rhs, v |-> v]
              /\ out' = [seq |-> Vector2f_mul(Vector2f_mul(v, in.lhs), rhs),
                         comp |-> Vector2f_mul(v, Matrix3x2f_mul(in.lhs, rhs))]
    /\ op' = "mul_vector"

\* IDENTITY as the left and as the right operand of a product, and as the
\* matrix a point and a vector are sent through.
MulIdentity ==
    /\ op = "init"
    /\ \E x \in MulVals, y \in MulVals :
          LET p == Point2f(x, y)
              v == Vector2f(x, y)
          IN  /\ in' = [lhs |-> in.lhs, p |-> p, v |-> v]
              /\ out' = [left |-> Matrix3x2f_mul(IDENTITY, in.lhs),
                         right |-> Matrix3x2f_mul(in.lhs, IDENTITY),
                         point |-> Point2f_mul(p, IDENTITY),
                         vector |-> Vector2f_mul(v, IDENTITY)]
    /\ op' = "mul_identity"

NextMul == MulPoint \/ MulVector \/ MulIdentity

SpecMul == InitMul /\ [][NextMul]_vars

\* C4: the left operand of a matrix product is applied first: for all
\* matrices A, B, every point p and every vector v,
\* (p * A) * B = p * (A * B) and (v * A) * B = v * (A * B).
C4_LeftOperandAppliedFirst ==
    op \in {"mul_point", "mul_vector"} => out.seq = out.comp

\* C4 witness: a point sent through two matrices that do not commute, both
\* with translation, where the two ways of computing agree.
C4_Witness ==
    /\ op = "mul_point"
    /\ out.seq = out.comp
    /\ Matrix3x2f_mul(in.lhs, in.rhs) # Matrix3x2f_mul(in.rhs, in.lhs)
    /\ in.lhs.x # R(0) /\ in.rhs.y # R(0)
    /\ in.p.x # R(0) /\ in.p.y # R(0)

\* C21: IDENTITY is the two-sided multiplicative identity: IDENTITY * M = M
\* and M * IDENTITY = M for every matrix M, and p * IDENTITY = p and
\* v * IDENTITY = v for every point p and vector v; its entries are a = 1,
\* d = 1, b = c = x = y = 0.
C21_IdentityIsNeutral ==
    op = "mul_identity"
        => /\ out.left = in.lhs
           /\ out.right = in.lhs
           /\ out.point = in.p
           /\ out.vector = in.v
           /\ IDENTITY = [a |-> R(1), b |-> R(0), c |-> R(0), d |-> R(1),
                          x |-> R(0), y |-> R(0)]

\* C21 witness: a matrix with all six entries non-zero, and a point off both
\* axes, each unchanged by IDENTITY.
C21_Witness ==
    /\ op = "mul_identity"
    /\ \A f \in {"a", "b", "c", "d", "x", "y"} : in.lhs[f] # R(0)
    /\ in.p.x # R(0) /\ in.p.y # R(0)
    /\ out.left = in.lhs /\ out.right = in.lhs /\ out.point = in.p

----------------------------------------------------------------------------
(* Constructors about a center: scaling, rotation, skew.                   *)

MaxCons == 2

MaxAngle == 12

\* The sampled coordinates of centers and scale vectors.
ConsVals == {R(n) : n \in -MaxCons..MaxCons}

\* The sampled angles: more than a full turn either way.
Angles == -MaxAngle..MaxAngle

\* The sampled skew angles: those with a finite tangent.
SkewAngles == {i \in Angles : cos(i) # R(0)}

\* center translated to the origin, then m (built about the origin), then the
\* origin translated back to center.
AboutCenter(m, center) ==
    Matrix3x2f_mul(
        Matrix3x2f_mul(translation(Vector2f(RNeg(center.x), RNeg(center.y))), m),
        translation(Vector2f(center.x, center.y)))

\* What a constructor call about a center is recorded as: the matrix built,
\* the same transform built about the origin and moved to the center, and the
\* image of the center under the matrix built.
ConsOut(m, at_origin, center) ==
    [m |-> m,
     around |-> AboutCenter(at_origin, center),
     center_image |-> Point2f_mul(center, m)]

InitCons ==
    /\ op = "init"
    /\ in \in {[center |-> Point2f(x, y)] : x \in ConsVals, y \in ConsVals}
    /\ out = {}

Scaling ==
    /\ op = "init"
    /\ \E sx \in ConsVals, sy \in ConsVals :
          LET scale == Vector2f(sx, sy)
          IN  /\ in' = [center |-> in.center, scale |-> scale]
              /\ out' = ConsOut(scaling(scale, in.center), scaling(scale, ORIGIN),
                                in.center)
    /\ op' = "scaling"

Rotation ==
    /\ op = "init"
    /\ \E angle \in Angles :
          /\ in' = [center |-> in.center, angle |-> angle]
          /\ out' = ConsOut(rotation(angle, in.center), rotation(angle, ORIGIN),
                            in.center)
    /\ op' = "rotation"

Skew ==
    /\ op = "init"
    /\ \E angle_x \in SkewAngles, angle_y \in SkewAngles :
          /\ in' = [center |-> in.center, angle_x |-> angle_x, angle_y |-> angle_y]
          /\ out' = ConsOut(skew(angle_x, angle_y, in.center),
                            skew(angle_x, angle_y, ORIGIN), in.center)
    /\ op' = "skew"

NextCons == Scaling \/ Rotation \/ Skew

SpecCons == InitCons /\ [][NextCons]_vars

\* C6: rotation(angle, c) equals translation(-c) * rotation(angle, origin) *
\* translation(c) for every angle and center c, and leaves c fixed.
C6_RotationAboutCenter ==
    op = "rotation" => (out.m = out.around /\ out.center_image = in.center)

\* C7: scaling(s, c) equals translation(-c) * scaling(s, origin) *
\* translation(c) for every scale vector s and center c, and leaves c fixed.
C7_ScalingAboutCenter ==
    op = "scaling" => (out.m = out.around /\ out.center_image = in.center)

\* C7 witness: a non-uniform scaling with a negative factor about a center
\* off both axes.
C7_Witness ==
    /\ op = "scaling"
    /\ out.m = out.around
    /\ out.center_image = in.center
    /\ in.center.x # R(0) /\ in.center.y # R(0) /\ in.center.x # in.center.y
    /\ in.scale.x = R(-2) /\ in.scale.y = R(2)

\* C8: skew(angle_x, angle_y, c) has the linear part a = 1, b = tan(angle_y),
\* c = tan(angle_x), d = 1, leaves the center c fixed, and equals
\* translation(-c) * skew(angle_x, angle_y, origin) * translation(c).
C8_SkewAboutCenter ==
    op = "skew"
        => /\ out.m.a = R(1) /\ out.m.b = tan(in.angle_y)
           /\ out.m.c = tan(in.angle_x) /\ out.m.d = R(1)
           /\ out.center_image = in.center
           /\ out.m = out.around

----------------------------------------------------------------------------
(* compose, decompose and recomposition.                                   *)

InitDecomp ==
    /\ op = "init"
    /\ in \in {[translation |-> Vector2f(x, y)] : x \in ConsVals, y \in ConsVals}
    /\ out = {}

\* compose(scaling, rotation, translation), beside the product of the three
\* constructors in that order.
Compose ==
    /\ op = "init"
    /\ \E sx \in ConsVals, sy \in ConsVals, angle \in Angles :
          LET s == Vector2f(sx, sy)
          IN  /\ in' = [built |-> "compose", scaling |-> s, rotation |-> angle,
                        translation |-> in.translation]
              /\ out' = [m |-> compose(s, angle, in.translation),
                         product |-> Matrix3x2f_mul(
                                        Matrix3x2f_mul(scaling(s, ORIGIN),
                                                       rotation(angle, ORIGIN)),
                                        translation(in.translation))]
    /\ op' = "built"

\* scaling(s, origin) * rotation(angle, origin) * translation(t).
ScalingRotationTranslation ==
    /\ op = "init"
    /\ \E sx \in ConsVals, sy \in ConsVals, angle \in Angles :
          LET s == Vector2f(sx, sy)
          IN  /\ in' = [built |-> "scaling*rotation*translation", scaling |-> s,
                        rotation |-> angle, translation |-> in.translation]
              /\ out' = [m |-> Matrix3x2f_mul(
                                  Matrix3x2f_mul(scaling(s, ORIGIN),
                                                 rotation(angle, ORIGIN)),
                                  translation(in.translation))]
    /\ op' = "built"

\* rotation(angle, origin) * scaling(s, origin) * translation(t).
RotationScalingTranslation ==
    /\ op = "init"
    /\ \E sx \in ConsVals, sy \in ConsVals, angle \in Angles :
          LET s == Vector2f(sx, sy)
          IN  /\ in' = [built |-> "rotation*scaling*translation", scaling |-> s,
                        rotation |-> angle, translation |-> in.translation]
              /\ out' = [m |-> Matrix3x2f_mul(
                                  Matrix3x2f_mul(rotation(angle, ORIGIN),
                                                 scaling(s, ORIGIN)),
                                  translation(in.translation))]
    /\ op' = "built"

\* The sampled uniform scales: half units from 0.
UniformScales == {Norm(n, 2) : n \in 0..(2 * MaxCons)}

\* scaling(s, origin) for a uniform scale s.
UniformScaling ==
    /\ op = "init"
    /\ \E s \in UniformScales :
          /\ in' = [built |-> "scaling", scale |-> s]
          /\ out' = [m |-> scaling(Vector2f_from_f32(s), ORIGIN)]
    /\ op' = "built"

\* scaling(s, origin) * rotation(angle, origin) for a uniform scale s.
UniformScalingRotation ==
    /\ op = "init"
    /\ \E s \in UniformScales, angle \in Angles :
          /\ in' = [built |-> "scaling*rotation", scale |-> s, rotation |-> angle]
          /\ out' = [m |-> Matrix3x2f_mul(scaling(Vector2f_from_f32(s), ORIGIN),
                                          rotation(angle, ORIGIN))]
    /\ op' = "built"

\* m.decompose(), for the matrices whose decomposition is Representable.
Decompose ==
    /\ op = "built"
    /\ Representable(out.m)
    /\ op' = "decompose"
    /\ out' = [m |-> out.m, decomp |-> decompose(out.m)]
    /\ UNCHANGED in

\* Matrix3x2f::from(decomp).
Recompose ==
    /\ op = "decompose"
    /\ op' = "recompose"
    /\ out' = [m |-> out.m, decomp |-> out.decomp,
               recomposed |-> Matrix3x2f_from(out.decomp)]
    /\ UNCHANGED in

NextDecomp ==
    \/ Compose
    \/ ScalingRotationTranslation
    \/ RotationScalingTranslation
    \/ UniformScaling
    \/ UniformScalingRotation
    \/ Decompose
    \/ Recompose

SpecDecomp == InitDecomp /\ [][NextDecomp]_vars

\* C5: compose(s, angle, t) equals scaling(s, origin) * rotation(angle, origin)
\* * translation(t) for every scale vector s, also when s.x # s.y, every angle
\* and every translation t.
C5_ComposeIsScalingRotationTranslation ==
    (op = "built" /\ in.built = "compose") => out.m = out.product

\* C9: for all sx > 0, sy > 0, every angle and translation,
\* compose((sx, sy), angle, t).decompose() has scaling (sx, sy), translation t
\* and a rotation equal to angle modulo a full turn.
C9_DecomposeInvertsCompose ==
    (/\ op = "decompose"
     /\ in.built = "compose"
     /\ RGt(in.scaling.x, R(0))
     /\ RGt(in.scaling.y, R(0)))
        => /\ out.decomp.scaling = in.scaling
           /\ out.decomp.translation = in.translation
           /\ (out.decomp.rotation - in.rotation) % FullTurn = 0

\* C9 witness: a composition with sx # sy, an angle off the axes and more than
\* half a turn, and a translation, whose decomposition gives the parameters
\* back with the angle reduced by a full turn.
C9_Witness ==
    /\ op = "decompose"
    /\ in.built = "compose"
    /\ in.scaling = Vector2f(R(2), R(1))
    /\ in.rotation = FullTurn - 1
    /\ in.translation = Vector2f(R(1), R(-2))
    /\ out.decomp.scaling = in.scaling
    /\ out.decomp.translation = in.translation
    /\ out.decomp.rotation = -1

\* C10: for every matrix M made up only of scalings (any scale factors),
\* rotations and translations multiplied together, Matrix3x2f::from(
\* M.decompose()) equals M.
C10_RecomposeReproduces ==
    op = "recompose" => out.recomposed = out.m

\* C22: for every uniform scale s in [0, 2], 0 and 1 included,
\* scaling(s, origin).decompose() has scaling (s, s), rotation 0 and
\* translation (0, 0), and recomposing it gives scaling(s, origin) back.
C22_ScaleOnlyRoundTrip ==
    (/\ op \in {"decompose", "recompose"}
     /\ in.built = "scaling"
     /\ RLe(in.scale, R(2)))
        => /\ out.decomp = Decomposition(Vector2f(in.scale, in.scale), 0,
                                         Vector2f(R(0), R(0)))
           /\ op = "recompose" => out.recomposed = out.m

\* C22 witness: the scaling by 1/2 decomposed and recomposed to itself.
C22_Witness ==
    /\ op = "recompose"
    /\ in.built = "scaling"
    /\ in.scale = Norm(1, 2)
    /\ out.decomp.scaling = Vector2f(Norm(1, 2), Norm(1, 2))
    /\ out.recomposed = out.m
    /\ out.m = Matrix3x2f(Norm(1, 2), R(0), R(0), Norm(1, 2), R(0), R(0))

\* C23: for every uniform scale s > 0 and every angle in (0, 2*PI],
\* M = scaling(s, origin) * rotation(angle, origin) decomposes to scaling
\* (s, s), translation (0, 0) and a rotation equal to angle modulo 2*PI, and
\* recomposing that decomposition gives M back.
C23_ScaleRotationRoundTrip ==
    (/\ op \in {"decompose", "recompose"}
     /\ in.built = "scaling*rotation"
     /\ RGt(in.scale, R(0))
     /\ in.rotation \in 1..FullTurn)
        => /\ out.decomp.scaling = Vector2f(in.scale, in.scale)
           /\ out.decomp.translation = Vector2f(R(0), R(0))
           /\ (out.decomp.rotation - in.rotation) % FullTurn = 0
           /\ op = "recompose" => out.recomposed = out.m

\* C23 witness: a scaling by 3/2 followed by a rotation off the axes and
\* beyond half a turn, decomposed to the angle less a full turn and
\* recomposed to the same matrix.
C23_Witness ==
    /\ op = "recompose"
    /\ in.built = "scaling*rotation"
    /\ in.scale = Norm(3, 2)
    /\ in.rotation = FullTurn - 1
    /\ out.decomp.scaling = Vector2f(Norm(3, 2), Norm(3, 2))
    /\ out.decomp.rotation = -1
    /\ out.recomposed = out.m

----------------------------------------------------------------------------
(* Ellipse: contains_point and contains_point_transformed.                 *)

Ellipse(center, rx, ry) == [center |-> center, radius_x |-> rx, radius_y |-> ry]

transform_point(m, point) == Point2f_mul(point, m)

\* contains_point with the boundary left out.
Ellipse_contains_point_strict(e, point) ==
    LET px == RSub(point.x, e.center.x)
        px2 == RMul(px, px)
        py == RSub(point.y, e.center.y)
        py2 == RMul(py, py)
        rx2 == RMul(e.radius_x, e.radius_x)
        ry2 == RMul(e.radius_y, e.radius_y)
    IN  RLt(RAdd(RDiv(px2, rx2), RDiv(py2, ry2)), R(1))

Ellipse_contains_point(e, point) ==
    LET px == RSub(point.x, e.center.x)
        px2 == RMul(px, px)
        py == RSub(point.y, e.center.y)
        py2 == RMul(py, py)
        rx2 == RMul(e.radius_x, e.radius_x)
        ry2 == RMul(e.radius_y, e.radius_y)
    IN  RLe(RAdd(RDiv(px2, rx2), RDiv(py2, ry2)), R(1))

\* contains_point_transformed testing the point as given when the transform
\* has no inverse.
Ellipse_contains_point_transformed_fallback(e, transform, point) ==
    LET inv == try_inverse(transform)
    IN  IF inv # None
        THEN Ellipse_contains_point(e, Point2f_mul(point, CHOOSE i \in inv : TRUE))
        ELSE Ellipse_contains_point(e, point)

\* contains_point_transformed applying the transform instead of its inverse.
Ellipse_contains_point_transformed_forward(e, transform, point) ==
    LET inv == try_inverse(transform)
    IN  IF inv # None
        THEN Ellipse_contains_point(e, Point2f_mul(point, transform))
        ELSE FALSE

Ellipse_contains_point_transformed(e, transform, point) ==
    LET inv == try_inverse(transform)
    IN  IF inv # None
        THEN Ellipse_contains_point(e, Point2f_mul(point, CHOOSE i \in inv : TRUE))
        ELSE FALSE

MaxEll == 2

MaxEllCenter == 1

MaxEllLin == 1

\* The sampled radii, zero included.
EllRadii == {R(n) : n \in 0..MaxEll}

EllCenterVals == {R(n) : n \in 0..MaxEllCenter}

\* The sampled points of the plain test: a grid of half units around the
\* sampled ellipses.
EllPointVals == {Norm(n, 2) : n \in (-2 * MaxEll)..(2 * (MaxEll + MaxEllCenter))}

\* The sampled points of the transformed test.
EllTransPointVals == {R(n) : n \in 0..MaxEllCenter}

\* The sampled translations: none, and the greatest sampled center offset.
EllTransVals == {R(0), R(MaxEllCenter)}

EllLinVals == {R(n) : n \in -1..MaxEllLin}

\* The sampled transforms: every linear part over EllLinVals, and the scaling
\* by (EPSILON, 1), whose determinant is at the invertibility threshold, each
\* with a translation.
EllTransforms ==
    {Matrix3x2f(a, b, c, d, t, RNeg(t)) :
        a \in EllLinVals, b \in EllLinVals, c \in EllLinVals, d \in EllLinVals,
        t \in EllTransVals}
    \cup {Matrix3x2f(EPSILON, R(0), R(0), R(1), t, RNeg(t)) : t \in EllTransVals}

InitEllipse ==
    /\ op = "init"
    /\ in \in {[ellipse |-> Ellipse(Point2f(cx, cy), rx, ry)] :
                  cx \in EllCenterVals, cy \in EllCenterVals,
                  rx \in EllRadii, ry \in EllRadii}
    /\ out = {}

ContainsPoint ==
    /\ op = "init"
    /\ \E x \in EllPointVals, y \in EllPointVals :
          LET point == Point2f(x, y)
          IN  /\ in' = [ellipse |-> in.ellipse, point |-> point]
              /\ out' = Ellipse_contains_point(in.ellipse, point)
    /\ op' = "contains_point"

ContainsPointTransformed ==
    /\ op = "init"
    /\ \E transform \in EllTransforms,
          x \in EllTransPointVals, y \in EllTransPointVals :
          LET point == Point2f(x, y)
          IN  /\ in' = [ellipse |-> in.ellipse, transform |-> transform,
                        point |-> point]
              /\ out' = Ellipse_contains_point_transformed(in.ellipse, transform,
                                                           point)
    /\ op' = "contains_point_transformed"

\* q is sent through the transform, and the image is tested against the
\* transformed ellipse, beside q tested against the ellipse itself.
ContainsTransformedImage ==
    /\ op = "init"
    /\ in.ellipse.radius_x # R(0)
    /\ in.ellipse.radius_y # R(0)
    /\ \E transform \in EllTransforms,
          x \in EllTransPointVals, y \in EllTransPointVals :
          LET q == Point2f(x, y)
              image == transform_point(transform, q)
          IN  /\ in' = [ellipse |-> in.ellipse, transform |-> transform, q |-> q]
              /\ out' = [image |-> image,
                         transformed |-> Ellipse_contains_point_transformed(
                                            in.ellipse, transform, image),
                         plain |-> Ellipse_contains_point(in.ellipse, q)]
    /\ op' = "contains_transformed_image"

NextEllipse == ContainsPoint \/ ContainsPointTransformed \/ ContainsTransformedImage

SpecEllipse == InitEllipse /\ [][NextEllipse]_vars

\* C11: contains_point_transformed(transform, p) is false for every point p
\* and every ellipse whenever |det(transform)| <= EPSILON.
C11_NotInvertibleIsOutside ==
    (op = "contains_point_transformed" /\ RLe(AbsDet(in.transform), EPSILON))
        => out = FALSE

\* C11 witness: a transform whose determinant is exactly EPSILON, and a point
\* that the untransformed ellipse contains, reported as not contained.
C11_Witness ==
    /\ op = "contains_point_transformed"
    /\ AbsDet(in.transform) = EPSILON
    /\ Ellipse_contains_point(in.ellipse, in.point)
    /\ out = FALSE

\* C12: for every ellipse E with non-zero radii, every invertible matrix M
\* and every point q, E.contains_point_transformed(M, q * M) equals
\* E.contains_point(q).
C12_TransformedAgreesWithPlain ==
    (op = "contains_transformed_image" /\ RGt(AbsDet(in.transform), EPSILON))
        => out.transformed = out.plain

\* C12 witness: a transform with shear and translation that carries a point
\* of the ellipse away from the ellipse, the image still reported as contained.
C12_Witness ==
    /\ op = "contains_transformed_image"
    /\ RGt(AbsDet(in.transform), EPSILON)
    /\ in.transform.b # R(0) /\ in.transform.x # R(0)
    /\ out.plain /\ out.transformed
    /\ ~Ellipse_contains_point(in.ellipse, out.image)

\* C13: for an ellipse with non-zero radii, contains_point(p) is true exactly
\* when (px-cx)^2 * ry^2 + (py-cy)^2 * rx^2 <= rx^2 * ry^2; boundary points and
\* the center are inside.
C13_EllipseInequality ==
    (/\ op = "contains_point"
     /\ in.ellipse.radius_x # R(0)
     /\ in.ellipse.radius_y # R(0))
        => LET dx == RSub(in.point.x, in.ellipse.center.x)
               dy == RSub(in.point.y, in.ellipse.center.y)
               rx2 == RMul(in.ellipse.radius_x, in.ellipse.radius_x)
               ry2 == RMul(in.ellipse.radius_y, in.ellipse.radius_y)
               lhs == RAdd(RMul(RMul(dx, dx), ry2), RMul(RMul(dy, dy), rx2))
           IN  /\ out <=> RLe(lhs, RMul(rx2, ry2))
               /\ lhs = RMul(rx2, ry2) => out
               /\ in.point = in.ellipse.center => out

\* C13 witness: a point on the boundary of an ellipse with different radii,
\* above or below the center, reported as contained.
C13_Witness ==
    /\ op = "contains_point"
    /\ in.ellipse.radius_x # in.ellipse.radius_y
    /\ in.ellipse.radius_x # R(0) /\ in.ellipse.radius_y # R(0)
    /\ in.point.x = in.ellipse.center.x /\ in.point.y # in.ellipse.center.y
    /\ RAdd(RDiv(RMul(RSub(in.point.x, in.ellipse.center.x),
                      RSub(in.point.x, in.ellipse.center.x)),
                 RMul(in.ellipse.radius_x, in.ellipse.radius_x)),
            RDiv(RMul(RSub(in.point.y, in.ellipse.center.y),
                      RSub(in.point.y, in.ellipse.center.y)),
                 RMul(in.ellipse.radius_y, in.ellipse.radius_y))) = R(1)
    /\ out = TRUE

----------------------------------------------------------------------------
(* Rectf and Recti: contains_point, normalized, combined_with.             *)

Rectf(left, top, right, bottom) ==
    [left |-> left, top |-> top, right |-> right, bottom |-> bottom]

Recti(left, top, right, bottom) ==
    [left |-> left, top |-> top, right |-> right, bottom |-> bottom]

RGe(x, y) == RLe(y, x)

RMin(x, y) == IF RLe(x, y) THEN x ELSE y

RMax(x, y) == IF RLe(x, y) THEN y ELSE x

IMin(x, y) == IF x <= y THEN x ELSE y

IMax(x, y) == IF x <= y THEN y ELSE x

\* contains_point with the edges left out.
Rectf_contains_point_open(r, point) ==
    /\ RGt(point.x, r.left)
    /\ RGt(point.y, r.top)
    /\ RLt(point.x, r.right)
    /\ RLt(point.y, r.bottom)

Rectf_contains_point(r, point) ==
    /\ RGe(point.x, r.left)
    /\ RGe(point.y, r.top)
    /\ RLe(point.x, r.right)
    /\ RLe(point.y, r.bottom)

\* normalized with the minimum and the maximum of left and right exchanged.
Rectf_normalized_exchanged(r) ==
    Rectf(RMax(r.left, r.right), RMin(r.top, r.bottom),
          RMin(r.left, r.right), RMax(r.top, r.bottom))

Rectf_normalized(r) ==
    Rectf(RMin(r.left, r.right), RMin(r.top, r.bottom),
          RMax(r.left, r.top), RMax(r.top, r.bottom))

Rectf_combined_with(r, other) ==
    LET r1 == Rectf_normalized(r)
        r2 == Rectf_normalized(other)
    IN  Rectf(RMin(r1.left, r2.left), RMin(r1.top, r2.top),
              RMax(r1.right, r2.right), RMax(r1.bottom, r2.bottom))

RectCorner == {"TopLeft", "TopRight", "BottomLeft", "BottomRight"}

Point2f_add(p, v) == Point2f(RAdd(p.x, v.x), RAdd(p.y, v.y))

Point2f_sub(p, q) == Vector2f(RSub(p.x, q.x), RSub(p.y, q.y))

Vector2f_abs(v) == Vector2f(RAbs(v.x), RAbs(v.y))

center(r) ==
    Point2f(RDiv(RAdd(r.left, r.right), R(2)), RDiv(RAdd(r.top, r.bottom), R(2)))

corner(r, k) ==
    CASE k = "TopLeft" -> Point2f(r.left, r.top)
      [] k = "TopRight" -> Point2f(r.right, r.top)
      [] k = "BottomLeft" -> Point2f(r.left, r.bottom)
      [] k = "BottomRight" -> Point2f(r.right, r.bottom)

Sizef(width, height) == [width |-> width, height |-> height]

from_center_size(c, sz) ==
    Rectf(RSub(c.x, RDiv(sz.width, R(2))), RSub(c.y, RDiv(sz.height, R(2))),
          RAdd(c.x, RDiv(sz.width, R(2))), RAdd(c.y, RDiv(sz.height, R(2))))

size(r) == Sizef(RSub(r.right, r.bottom), RSub(r.bottom, r.top))

half_extent(r) ==
    LET sz == size(r)
    IN  Vector2f(RDiv(sz.width, R(2)), RDiv(sz.height, R(2)))

Recti_normalized(r) ==
    Recti(IMin(r.left, r.right), IMin(r.top, r.bottom),
          IMax(r.left, r.top), IMax(r.top, r.bottom))

Point2i(x, y) == [x |-> x, y |-> y]

\* impl From<(i32, i32)> for Point2i.
Point2i_from(t) == Point2i(t[1], t[2])

\* Recti::EMPTY: left and top are i32::MAX, right and bottom are i32::MIN.
EMPTY == Recti(2147483647, 2147483647, -2147483647 - 1, -2147483647 - 1)

Recti_contains_point(r, point) ==
    /\ point.x >= r.left
    /\ point.y >= r.top
    /\ point.x <= r.right
    /\ point.y <= r.bottom

\* The items of the range lo..=hi in the order the iterator yields them.
RangeInclusive(lo, hi) ==
    IF lo > hi THEN <<>> ELSE [i \in 1..(hi - lo + 1) |-> lo + i - 1]

rows(r) == RangeInclusive(r.top, r.bottom)

columns(r) == RangeInclusive(r.left, r.right)

\* Iterator::flat_map on sequences: the items of each f[i] in turn.
RECURSIVE flat_map(_)
flat_map(f) ==
    IF f = <<>> THEN <<>> ELSE Head(f) \o flat_map(Tail(f))

\* points with each point built from (row, col).
points_row_first(r) ==
    flat_map([i \in DOMAIN rows(r) |->
                 [j \in DOMAIN columns(r) |->
                     Point2i_from(<<rows(r)[i], columns(r)[j]>>)]])

points(r) ==
    flat_map([i \in DOMAIN rows(r) |->
                 [j \in DOMAIN columns(r) |->
                     Point2i_from(<<columns(r)[j], rows(r)[i]>>)]])

MaxRect == 2

\* The sampled edge coordinates of a Rectf.
RectVals == {R(n) : n \in 0..MaxRect}

\* The sampled edge coordinates of a Recti.
RectiVals == 0..MaxRect

\* The sampled point coordinates: half units from one below the least edge
\* to one above the greatest.
RectPointVals == {Norm(n, 2) : n \in -2..(2 * MaxRect + 2)}

RectPoints == {Point2f(x, y) : x \in RectPointVals, y \in RectPointVals}

\* The sampled integer points: from one below the least edge of a sampled
\* Recti to one above the greatest.
RectiPoints == {Point2i(x, y) : x \in -1..(MaxRect + 1), y \in -1..(MaxRect + 1)}

\* The sampled Recti: every rectangle over RectiVals, and EMPTY.
Rectis ==
    {Recti(l, t, r, b) : l \in RectiVals, t \in RectiVals,
                         r \in RectiVals, b \in RectiVals} \cup {EMPTY}

Rects == {Rectf(l, t, r, b) : l \in RectVals, t \in RectVals,
                               r \in RectVals, b \in RectVals}

InitRect ==
    /\ op = "init"
    /\ in \in {[rect |-> r] : r \in Rects}
    /\ out = {}

RectContainsPoint ==
    /\ op = "init"
    /\ \E point \in RectPoints :
          /\ in' = [rect |-> in.rect, point |-> point]
          /\ out' = Rectf_contains_point(in.rect, point)
    /\ op' = "rectf_contains_point"

Normalized ==
    /\ op = "init"
    /\ in' = in
    /\ out' = [once |-> Rectf_normalized(in.rect),
               twice |-> Rectf_normalized(Rectf_normalized(in.rect))]
    /\ op' = "rectf_normalized"

NormalizedRecti ==
    /\ op = "init"
    /\ \E l \in RectiVals, t \in RectiVals, r \in RectiVals, b \in RectiVals :
          LET rect == Recti(l, t, r, b)
          IN  /\ in' = [rect |-> rect]
              /\ out' = [once |-> Recti_normalized(rect),
                         twice |-> Recti_normalized(Recti_normalized(rect))]
    /\ op' = "recti_normalized"

CombinedWith ==
    /\ op = "init"
    /\ \E other \in Rects :
          /\ in' = [rect |-> in.rect, other |-> other]
          /\ out' = Rectf_combined_with(in.rect, other)
    /\ op' = "rectf_combined_with"

\* size(), half_extent() and center() + half_extent() of the rectangle.
Size ==
    /\ op = "init"
    /\ in' = in
    /\ out' = [size |-> size(in.rect),
               half_extent |-> half_extent(in.rect),
               center_plus_half |-> Point2f_add(center(in.rect),
                                                half_extent(in.rect))]
    /\ op' = "rectf_size"

\* from_center_size(c, s) and the size() of the rectangle it returns.
FromCenterSize ==
    /\ op = "init"
    /\ \E cx \in RectVals, cy \in RectVals, w \in RectVals, h \in RectVals :
          LET c == Point2f(cx, cy)
              sz == Sizef(w, h)
          IN  /\ in' = [center |-> c, size |-> sz]
              /\ out' = [rect |-> from_center_size(c, sz),
                         size |-> size(from_center_size(c, sz))]
    /\ op' = "rectf_from_center_size"

\* rect.points(), beside the sampled points rect.contains_point accepts.
Points ==
    /\ op = "init"
    /\ \E rect \in Rectis :
          /\ in' = [rect |-> rect]
          /\ out' = [points |-> points(rect),
                     contained |-> {p \in RectiPoints :
                                       Recti_contains_point(rect, p)}]
    /\ op' = "recti_points"

NextRect ==
    \/ Points
    \/ RectContainsPoint
    \/ Normalized
    \/ NormalizedRecti
    \/ CombinedWith
    \/ Size
    \/ FromCenterSize

SpecRect == InitRect /\ [][NextRect]_vars

IsNormalized(r) == RLe(r.left, r.right) /\ RLe(r.top, r.bottom)

\* C16: Rectf::contains_point(p) is true exactly when left <= px <= right
\* and top <= py <= bottom: edges and corners are inside.
C16_ClosedRegion ==
    op = "rectf_contains_point"
        => (out <=> /\ RLe(in.rect.left, in.point.x)
                    /\ RLe(in.point.x, in.rect.right)
                    /\ RLe(in.rect.top, in.point.y)
                    /\ RLe(in.point.y, in.rect.bottom))

\* C16 witness: the bottom-right corner of a rectangle with a positive area
\* is reported as contained.
C16_Witness ==
    /\ op = "rectf_contains_point"
    /\ RLt(in.rect.left, in.rect.right) /\ RLt(in.rect.top, in.rect.bottom)
    /\ in.point = Point2f(in.rect.right, in.rect.bottom)
    /\ out = TRUE

\* C17: normalized() of (left, top, right, bottom) is (min(left, right),
\* min(top, bottom), max(left, right), max(top, bottom)), for Rectf and for
\* Recti; a normalized rectangle is returned unchanged, and normalizing twice
\* gives what normalizing once gives.
C17_NormalizedIsMinMax ==
    /\ op = "rectf_normalized"
          => /\ out.once = Rectf(RMin(in.rect.left, in.rect.right),
                                 RMin(in.rect.top, in.rect.bottom),
                                 RMax(in.rect.left, in.rect.right),
                                 RMax(in.rect.top, in.rect.bottom))
             /\ IsNormalized(in.rect) => out.once = in.rect
             /\ out.twice = out.once
    /\ op = "recti_normalized"
          => /\ out.once = Recti(IMin(in.rect.left, in.rect.right),
                                 IMin(in.rect.top, in.rect.bottom),
                                 IMax(in.rect.left, in.rect.right),
                                 IMax(in.rect.top, in.rect.bottom))
             /\ (in.rect.left <= in.rect.right /\ in.rect.top <= in.rect.bottom)
                   => out.once = in.rect
             /\ out.twice = out.once

\* C18: the result of Rectf::normalized() has left <= right and
\* top <= bottom, whatever the input.
C18_NormalizedResultIsNormalized ==
    op = "rectf_normalized" => IsNormalized(out.once)

\* C18 witness: a rectangle with left > right and top > bottom, whose
\* normalized() result has left <= right and top <= bottom.
C18_Witness ==
    /\ op = "rectf_normalized"
    /\ RGt(in.rect.left, in.rect.right) /\ RGt(in.rect.top, in.rect.bottom)
    /\ IsNormalized(out.once)

\* C19: for normalized r1 and r2, r1.combined_with(r2) is (min of lefts,
\* min of tops, max of rights, max of bottoms), and contains every point
\* that r1 or r2 contains.
C19_CombinedIsBoundingRect ==
    (/\ op = "rectf_combined_with"
     /\ IsNormalized(in.rect)
     /\ IsNormalized(in.other))
        => /\ out = Rectf(RMin(in.rect.left, in.other.left),
                          RMin(in.rect.top, in.other.top),
                          RMax(in.rect.right, in.other.right),
                          RMax(in.rect.bottom, in.other.bottom))
           /\ \A p \in RectPoints :
                 (Rectf_contains_point(in.rect, p)
                      \/ Rectf_contains_point(in.other, p))
                     => Rectf_contains_point(out, p)

\* C25: Rectf::size() is (right - left, bottom - top) for every rectangle;
\* so from_center_size(c, s).size() = s, and center() + half_extent() is the
\* bottom-right corner.
C25_SizeIsWidthHeight ==
    /\ op = "rectf_size"
          => /\ out.size = Sizef(RSub(in.rect.right, in.rect.left),
                                 RSub(in.rect.bottom, in.rect.top))
             /\ out.center_plus_half = corner(in.rect, "BottomRight")
    /\ op = "rectf_from_center_size" => out.size = in.size

\* C28: Recti::points() yields exactly the points the rectangle contains,
\* each once, rows from top to bottom and within a row columns from left to
\* right: (right-left+1)*(bottom-top+1) points for a normalized rectangle,
\* and nothing when left > right or top > bottom, as for Recti::EMPTY, which
\* contains no point.
C28_PointsAreTheContainedPoints ==
    op = "recti_points"
        => /\ {out.points[i] : i \in DOMAIN out.points} = out.contained
           /\ \A i \in DOMAIN out.points, j \in DOMAIN out.points :
                 i < j => \/ out.points[i].y < out.points[j].y
                          \/ /\ out.points[i].y = out.points[j].y
                             /\ out.points[i].x < out.points[j].x
           /\ (in.rect.left <= in.rect.right /\ in.rect.top <= in.rect.bottom)
                 => Len(out.points) = (in.rect.right - in.rect.left + 1)
                                          * (in.rect.bottom - in.rect.top + 1)
           /\ (in.rect.left > in.rect.right \/ in.rect.top > in.rect.bottom)
                 => out.points = <<>>
           /\ in.rect = EMPTY => (out.points = <<>> /\ out.contained = {})

\* C28 witness: a rectangle three columns wide and two rows high, whose six
\* points come row by row.
C28_Witness ==
    /\ op = "recti_points"
    /\ in.rect = Recti(0, 1, 2, 2)
    /\ out.points = <<Point2i(0, 1), Point2i(1, 1), Point2i(2, 1),
                      Point2i(0, 2), Point2i(1, 2), Point2i(2, 2)>>

----------------------------------------------------------------------------
(* RoundedRect: corner_ellipse, contains_point, contains_point_crude.      *)

RoundedRect(rect, rx, ry) == [rect |-> rect, radius_x |-> rx, radius_y |-> ry]

\* corner_ellipse with every center offset as for the top-left corner.
corner_ellipse_top_left_offset(rr, k) ==
    Ellipse(Point2f_add(corner(rr.rect, k), Vector2f(rr.radius_x, rr.radius_y)),
            rr.radius_x, rr.radius_y)

corner_ellipse(rr, k) ==
    LET rect_corner == corner(rr.rect, k)
        c == CASE k = "TopLeft" ->
                    Point2f_add(rect_corner, Vector2f(rr.radius_x, rr.radius_y))
               [] k = "TopRight" ->
                    Point2f_add(rect_corner, Vector2f(RNeg(rr.radius_x), rr.radius_y))
               [] k = "BottomLeft" ->
                    Point2f_add(rect_corner, Vector2f(rr.radius_x, RNeg(rr.radius_y)))
               [] k = "BottomRight" ->
                    Point2f_add(rect_corner,
                                Vector2f(RNeg(rr.radius_x), RNeg(rr.radius_y)))
    IN  Ellipse(c, rr.radius_x, rr.radius_y)

\* contains_point testing the point itself against the bottom-right ellipse,
\* without folding it into the bottom-right quadrant.
RoundedRect_contains_point_unfolded(rr, point) ==
    LET e == corner_ellipse(rr, "BottomRight")
    IN  IF ~Rectf_contains_point(rr.rect, point) THEN FALSE
        ELSE IF RLe(point.x, e.center.x) \/ RLe(point.y, e.center.y) THEN TRUE
        ELSE Ellipse_contains_point(e, point)

\* contains_point returning early only strictly before the ellipse's center.
RoundedRect_contains_point_strict_early(rr, point) ==
    LET c == center(rr.rect)
        rpoint == Point2f_add(c, Vector2f_abs(Point2f_sub(point, c)))
        e == corner_ellipse(rr, "BottomRight")
    IN  IF ~Rectf_contains_point(rr.rect, point) THEN FALSE
        ELSE IF RLt(rpoint.x, e.center.x) \/ RLt(rpoint.y, e.center.y) THEN TRUE
        ELSE Ellipse_contains_point(e, rpoint)

RoundedRect_contains_point(rr, point) ==
    LET c == center(rr.rect)
        rpoint == Point2f_add(c, Vector2f_abs(Point2f_sub(point, c)))
        e == corner_ellipse(rr, "BottomRight")
    IN  IF ~Rectf_contains_point(rr.rect, point) THEN FALSE
        ELSE IF RLe(rpoint.x, e.center.x) \/ RLe(rpoint.y, e.center.y) THEN TRUE
        ELSE Ellipse_contains_point(e, rpoint)

\* Whether contains_point gets as far as its last line, the test against the
\* corner ellipse, which divides by the radii.
corner_ellipse_tested(rr, point) ==
    LET c == center(rr.rect)
        rpoint == Point2f_add(c, Vector2f_abs(Point2f_sub(point, c)))
        e == corner_ellipse(rr, "BottomRight")
    IN  /\ Rectf_contains_point(rr.rect, point)
        /\ ~(RLe(rpoint.x, e.center.x) \/ RLe(rpoint.y, e.center.y))

contains_point_crude(rr, point) == Rectf_contains_point(rr.rect, point)

MaxRR == 2

\* The sampled edge coordinates of the rectangle.
RRVals == {R(n) : n \in 0..MaxRR}

\* The sampled radii: half units, zero included.
RRRadii == {Norm(n, 2) : n \in 0..MaxRR}

\* The sampled point coordinates: quarter units from one unit below the least
\* edge to one unit above the greatest.
RRPointVals == {Norm(n, 4) : n \in -4..(4 * MaxRR + 4)}

\* The sampled rounded rectangles, all normalized.
RoundedRects ==
    {RoundedRect(Rectf(l, t, r, b), rx, ry) :
        l \in RRVals, t \in RRVals, r \in RRVals, b \in RRVals,
        rx \in RRRadii, ry \in RRRadii}

InitRounded ==
    /\ op = "init"
    /\ in \in {[rrect |-> rr] : rr \in {q \in RoundedRects : IsNormalized(q.rect)}}
    /\ out = {}

RoundedContainsPoint ==
    /\ op = "init"
    /\ \E x \in RRPointVals, y \in RRPointVals :
          LET point == Point2f(x, y)
          IN  /\ in' = [rrect |-> in.rrect, point |-> point]
              /\ out' = [precise |-> RoundedRect_contains_point(in.rrect, point),
                         crude |-> contains_point_crude(in.rrect, point),
                         ellipse_tested |-> corner_ellipse_tested(in.rrect, point)]
    /\ op' = "rounded_contains_point"

\* The point and its mirror images about the rectangle's center, each tested.
Mirrored(r, point, mx, my) ==
    LET c == center(r)
    IN  Point2f(IF mx THEN RSub(RAdd(c.x, c.x), point.x) ELSE point.x,
                IF my THEN RSub(RAdd(c.y, c.y), point.y) ELSE point.y)

RoundedContainsMirrored ==
    /\ op = "init"
    /\ \E x \in RRPointVals, y \in RRPointVals :
          LET point == Point2f(x, y)
          IN  /\ in' = [rrect |-> in.rrect, point |-> point]
              /\ out' = [mx \in BOOLEAN, my \in BOOLEAN |->
                            RoundedRect_contains_point(
                                in.rrect, Mirrored(in.rrect.rect, point, mx, my))]
    /\ op' = "rounded_contains_mirrored"

NextRounded == RoundedContainsPoint \/ RoundedContainsMirrored

SpecRounded == InitRounded /\ [][NextRounded]_vars

\* p is strictly beyond the center of corner k's ellipse, towards corner k,
\* on both axes.
BeyondTowards(rr, k, p) ==
    LET c == corner_ellipse(rr, k).center
    IN  /\ IF k \in {"TopLeft", "BottomLeft"} THEN RLt(p.x, c.x) ELSE RGt(p.x, c.x)
        /\ IF k \in {"TopLeft", "TopRight"} THEN RLt(p.y, c.y) ELSE RGt(p.y, c.y)

FourCornerReference(rr, p) ==
    /\ Rectf_contains_point(rr.rect, p)
    /\ \A k \in RectCorner :
          ~BeyondTowards(rr, k, p) \/ Ellipse_contains_point(corner_ellipse(rr, k), p)

RadiiFit(rr) ==
    /\ RLe(R(0), rr.radius_x)
    /\ RLe(RMul(R(2), rr.radius_x), RSub(rr.rect.right, rr.rect.left))
    /\ RLe(R(0), rr.radius_y)
    /\ RLe(RMul(R(2), rr.radius_y), RSub(rr.rect.bottom, rr.rect.top))

\* C14: for a normalized rounded rectangle with 0 <= 2*radius_x <= width and
\* 0 <= 2*radius_y <= height, contains_point(p) equals the four-corner
\* reference, and equals contains_point of p mirrored horizontally and/or
\* vertically about the rectangle's center.
C14_OneCornerTestIsFourCornerTest ==
    /\ (op = "rounded_contains_point" /\ RadiiFit(in.rrect))
          => (out.precise <=> FourCornerReference(in.rrect, in.point))
    /\ (op = "rounded_contains_mirrored" /\ RadiiFit(in.rrect))
          => \A mx \in BOOLEAN, my \in BOOLEAN : out[mx, my] = out[FALSE, FALSE]

\* C14 witness: a point in the top-left corner region, inside the rectangle
\* and outside the top-left ellipse, reported as not contained.
C14_Witness ==
    /\ op = "rounded_contains_point"
    /\ RadiiFit(in.rrect)
    /\ in.rrect.radius_x # in.rrect.radius_y
    /\ Rectf_contains_point(in.rrect.rect, in.point)
    /\ in.point # corner(in.rrect.rect, "TopLeft")
    /\ BeyondTowards(in.rrect, "TopLeft", in.point)
    /\ ~Ellipse_contains_point(corner_ellipse(in.rrect, "TopLeft"), in.point)
    /\ out.precise = FALSE

\* C15: for a normalized rounded rectangle with radius_x > 0 and
\* radius_y > 0, each of the four outer corners of the rectangle is contained
\* by contains_point_crude and not by contains_point; and contains_point(p)
\* implies contains_point_crude(p) for every p.
C15_CornersAreCrudeOnly ==
    op = "rounded_contains_point"
        => /\ (/\ RGt(in.rrect.radius_x, R(0))
               /\ RGt(in.rrect.radius_y, R(0))
               /\ \E k \in RectCorner : in.point = corner(in.rrect.rect, k))
                 => (out.crude /\ ~out.precise)
           /\ out.precise => out.crude

\* C15 witness: the top-left corner of a rectangle with a positive area and
\* positive radii, contained by the crude test only.
C15_Witness ==
    /\ op = "rounded_contains_point"
    /\ RGt(in.rrect.radius_x, R(0)) /\ RGt(in.rrect.radius_y, R(0))
    /\ RLt(in.rrect.rect.left, in.rrect.rect.right)
    /\ RLt(in.rrect.rect.top, in.rrect.rect.bottom)
    /\ in.point = corner(in.rrect.rect, "TopLeft")
    /\ out.crude /\ ~out.precise

\* C27: when radius_x = 0 or radius_y = 0 and the rectangle is normalized,
\* contains_point(p) equals contains_point_crude(p) for every point p, and
\* the corner ellipse's division by a zero radius is never reached.
C27_ZeroRadiiIsPlainRect ==
    (/\ op = "rounded_contains_point"
     /\ (in.rrect.radius_x = R(0) \/ in.rrect.radius_y = R(0)))
        => (out.precise = out.crude /\ ~out.ellipse_tested)

\* C27 witness: radius_x is zero and radius_y is not, and the bottom-right
\* corner of a rectangle with a positive area is contained by both tests.
C27_Witness ==
    /\ op = "rounded_contains_point"
    /\ in.rrect.radius_x = R(0) /\ RGt(in.rrect.radius_y, R(0))
    /\ RLt(in.rrect.rect.left, in.rrect.rect.right)
    /\ RLt(in.rrect.rect.top, in.rrect.rect.bottom)
    /\ in.point = corner(in.rrect.rect, "BottomRight")
    /\ out.precise /\ out.crude /\ ~out.ellipse_tested

----------------------------------------------------------------------------
(* transform_point and transform_vector.                                   *)

\* transform_vector applying the translation as for a point.
transform_vector_translated(m, vector) ==
    Vector2f(RAdd(RAdd(RMul(vector.x, m.a), RMul(vector.y, m.c)), m.x),
             RAdd(RAdd(RMul(vector.x, m.b), RMul(vector.y, m.d)), m.y))

transform_vector(m, vector) == Vector2f_mul(vector, m)

MaxTf == 1

\* The sampled linear entries of the matrix.
TfLinVals == {R(n) : n \in (-MaxTf)..MaxTf}

\* The sampled translations and point coordinates.
TfVals == {R(n) : n \in 0..MaxTf}

InitTransform ==
    /\ op = "init"
    /\ in \in {[m |-> Matrix3x2f(a, b, c, d, x, y)] :
                  a \in TfLinVals, b \in TfLinVals, c \in TfLinVals,
                  d \in TfLinVals, x \in TfVals, y \in TfVals}
    /\ out = {}

\* Two points are transformed, and so is their difference.
TransformDifference ==
    /\ op = "init"
    /\ \E px \in TfVals, py \in TfVals, qx \in TfVals, qy \in TfVals :
          LET p == Point2f(px, py)
              q == Point2f(qx, qy)
          IN  /\ in' = [m |-> in.m, p |-> p, q |-> q]
              /\ out' = [tp |-> transform_point(in.m, p),
                         tq |-> transform_point(in.m, q),
                         tv |-> transform_vector(in.m, Point2f_sub(p, q))]
    /\ op' = "transform_difference"

\* A vector is transformed by the matrix, and by the matrix with another
\* translation.
TransformVector ==
    /\ op = "init"
    /\ \E vx \in TfLinVals, vy \in TfLinVals, x \in TfVals, y \in TfVals :
          LET v == Vector2f(vx, vy)
              moved == [in.m EXCEPT !.x = RNeg(x), !.y = RNeg(y)]
          IN  /\ in' = [m |-> in.m, v |-> v, moved |-> moved]
              /\ out' = [tv |-> transform_vector(in.m, v),
                         tmoved |-> transform_vector(moved, v)]
    /\ op' = "transform_vector"

NextTransform == TransformDifference \/ TransformVector

SpecTransform == InitTransform /\ [][NextTransform]_vars

\* C20: M.transform_point(p) - M.transform_point(q) equals
\* M.transform_vector(p - q) for every matrix M and all points p and q;
\* transform_point(p) is p * M, transform_vector(v) is v * M, which has no
\* translation term and so does not depend on M.x or M.y.
C20_VectorTransformIsLinearPart ==
    /\ op = "transform_difference"
          => /\ Point2f_sub(out.tp, out.tq) = out.tv
             /\ out.tp = Point2f_mul(in.p, in.m)
             /\ out.tv = Vector2f_mul(Point2f_sub(in.p, in.q), in.m)
    /\ op = "transform_vector"
          => /\ out.tv = Vector2f(RAdd(RMul(in.v.x, in.m.a), RMul(in.v.y, in.m.c)),
                                  RAdd(RMul(in.v.x, in.m.b), RMul(in.v.y, in.m.d)))
             /\ out.tmoved = out.tv

\* C20 witness: a matrix with a translation on both axes and two different
\* points, the difference of the images being the image of the difference
\* and not the difference itself.
C20_Witness ==
    /\ op = "transform_difference"
    /\ in.m.x # R(0) /\ in.m.y # R(0)
    /\ in.p.x # in.q.x /\ in.p.y # in.q.y
    /\ Point2f_sub(out.tp, out.tq) = out.tv
    /\ out.tv # Point2f_sub(in.p, in.q)

----------------------------------------------------------------------------
(* is_approx_eq of Matrix3x2f, Vector2f and Point2f.                       *)

Matrix3x2f_is_approx_eq(m, other, epsilon) ==
    /\ RLt(RAbs(RSub(m.a, other.a)), epsilon)
    /\ RLt(RAbs(RSub(m.b, other.b)), epsilon)
    /\ RLt(RAbs(RSub(m.c, other.c)), epsilon)
    /\ RLt(RAbs(RSub(m.d, other.d)), epsilon)
    /\ RLt(RAbs(RSub(m.x, other.x)), epsilon)
    /\ RLt(RAbs(RSub(m.y, other.y)), epsilon)

Vector2f_is_approx_eq(v, other, epsilon) ==
    /\ RLe(RAbs(RSub(v.x, other.x)), epsilon)
    /\ RLe(RAbs(RSub(v.y, other.y)), epsilon)

Point2f_is_approx_eq(p, other, epsilon) ==
    /\ RLe(RAbs(RSub(p.x, other.x)), epsilon)
    /\ RLe(RAbs(RSub(p.y, other.y)), epsilon)

MaxApprox == 1

\* The sampled components of matrices, vectors and points.
ApproxVals == {R(n) : n \in 0..MaxApprox}

\* The sampled tolerances: half units from 0.
Epsilons == {Norm(n, 2) : n \in 0..(2 * MaxApprox)}

MatrixFields == {"a", "b", "c", "d", "x", "y"}

InitApprox ==
    /\ op = "init"
    /\ in \in {[m |-> Matrix3x2f(a, b, c, d, x, y)] :
                  a \in ApproxVals, b \in ApproxVals, c \in ApproxVals,
                  d \in ApproxVals, x \in ApproxVals, y \in ApproxVals}
    /\ out = {}

\* m.is_approx_eq(other, epsilon) and other.is_approx_eq(m, epsilon), other
\* being m with up to two components replaced.
MatrixIsApproxEq ==
    /\ op = "init"
    /\ \E f \in MatrixFields, g \in MatrixFields,
          v \in ApproxVals, w \in ApproxVals, epsilon \in Epsilons :
          LET other == [in.m EXCEPT ![f] = v, ![g] = w]
          IN  /\ in' = [m |-> in.m, other |-> other, epsilon |-> epsilon]
              /\ out' = [forward |-> Matrix3x2f_is_approx_eq(in.m, other, epsilon),
                         backward |-> Matrix3x2f_is_approx_eq(other, in.m, epsilon)]
    /\ op' = "matrix_is_approx_eq"

\* Vector2f::is_approx_eq and Point2f::is_approx_eq on the same components.
VectorIsApproxEq ==
    /\ op = "init"
    /\ \E x \in ApproxVals, y \in ApproxVals, epsilon \in Epsilons :
          LET v == Vector2f(in.m.a, in.m.b)
              other == Vector2f(x, y)
          IN  /\ in' = [v |-> v, other |-> other, epsilon |-> epsilon]
              /\ out' = [vector |-> Vector2f_is_approx_eq(v, other, epsilon),
                         point |-> Point2f_is_approx_eq(Point2f(v.x, v.y),
                                                        Point2f(x, y), epsilon)]
    /\ op' = "vector_is_approx_eq"

NextApprox == MatrixIsApproxEq \/ VectorIsApproxEq

SpecApprox == InitApprox /\ [][NextApprox]_vars

\* C24: Matrix3x2f::is_approx_eq(other, epsilon) is true exactly when each of
\* the six components differs in absolute value by no more than epsilon, the
\* boundary rule of Vector2f::is_approx_eq and Point2f::is_approx_eq; so a
\* matrix is approximately equal to itself for every epsilon >= 0, and the
\* relation is symmetric.
C24_ApproxEqIsWithinEpsilon ==
    /\ op = "matrix_is_approx_eq"
          => /\ out.forward
                   <=> \A f \in MatrixFields :
                          RLe(RAbs(RSub(in.m[f], in.other[f])), in.epsilon)
             /\ in.other = in.m => out.forward
             /\ out.forward = out.backward
    /\ op = "vector_is_approx_eq"
          => /\ out.vector
                   <=> /\ RLe(RAbs(RSub(in.v.x, in.other.x)), in.epsilon)
                       /\ RLe(RAbs(RSub(in.v.y, in.other.y)), in.epsilon)
             /\ out.point = out.vector

----------------------------------------------------------------------------
(* Conversions from arrays and tuples; Point2i subtraction.                *)

\* impl From<(f32, f32)> for Point2f.
Point2f_from_tuple(t) == Point2f(t[1], t[2])

\* impl From<[f32; 2]> for Point2f.
Point2f_from_array(p) == Point2f(p[1], p[1])

\* impl From<Point2f> for [f32; 2].
Point2f_into_array(p) == <<p.x, p.y>>

Point2u(x, y) == [x |-> x, y |-> y]

\* impl From<(u32, u32)> for Point2u.
Point2u_from_tuple(t) == Point2u(t[1], t[2])

\* impl From<[u32; 2]> for Point2u.
Point2u_from_array(p) == Point2u(p[1], p[1])

\* impl From<Point2u> for [u32; 2].
Point2u_into_array(p) == <<p.x, p.y>>

Vector2i(x, y) == [x |-> x, y |-> y]

\* impl Add<V> for Point2i, V: Into<Vector2i>.
Point2i_add(p, v) == Point2i(p.x + v.x, p.y + v.y)

\* impl Sub for Point2i.
Point2i_sub(p, rhs) == Vector2i(p.x - rhs.x, p.y - rhs.y)

\* impl Sub<(i32, i32)> for Point2i.
Point2i_sub_tuple(p, rhs) == Vector2i(p.x - rhs[1], p.y - rhs[1])

\* impl Add<(i32, i32)> for Vector2i.
Vector2i_add_tuple(v, rhs) == Point2i_add(Point2i_from(rhs), v)

MaxConv == 3

\* The sampled components.
ConvVals == 0..MaxConv

InitConv ==
    /\ op = "init"
    /\ in \in {[x |-> x, y |-> y] : x \in ConvVals, y \in ConvVals}
    /\ out = {}

\* [x, y] and (x, y) converted into a Point2f, the point converted to an
\* array and back, and both given to transform_point and to contains_point.
Point2fFromArray ==
    /\ op = "init"
    /\ \E sx \in ConvVals, sy \in ConvVals :
          LET a == <<R(in.x), R(in.y)>>
              m == scaling(Vector2f(R(sx), R(sy)), ORIGIN)
              rect == Rectf(R(0), R(0), R(sx), R(sy))
          IN  /\ in' = [x |-> in.x, y |-> in.y, m |-> m, rect |-> rect]
              /\ out' = [from_array |-> Point2f_from_array(a),
                         from_tuple |-> Point2f_from_tuple(a),
                         round_trip |-> Point2f_from_array(
                                           Point2f_into_array(Point2f(a[1], a[2]))),
                         transformed_array |->
                             transform_point(m, Point2f_from_array(a)),
                         transformed_tuple |->
                             transform_point(m, Point2f_from_tuple(a)),
                         contained_array |->
                             Rectf_contains_point(rect, Point2f_from_array(a)),
                         contained_tuple |->
                             Rectf_contains_point(rect, Point2f_from_tuple(a))]
    /\ op' = "point2f_from_array"

\* [x, y] and (x, y) converted into a Point2u, and the point converted to an
\* array and back.
Point2uFromArray ==
    /\ op = "init"
    /\ LET a == <<in.x, in.y>>
       IN  out' = [from_array |-> Point2u_from_array(a),
                   from_tuple |-> Point2u_from_tuple(a),
                   round_trip |-> Point2u_from_array(
                                     Point2u_into_array(Point2u(a[1], a[2])))]
    /\ in' = in
    /\ op' = "point2u_from_array"

\* p - (x, y) beside p - Point2i::from((x, y)), and each difference added
\* back to (x, y).
Point2iSubTuple ==
    /\ op = "init"
    /\ \E px \in ConvVals, py \in ConvVals :
          LET p == Point2i(px, py)
              q == <<in.x, in.y>>
          IN  /\ in' = [x |-> in.x, y |-> in.y, p |-> p]
              /\ out' = [tuple |-> Point2i_sub_tuple(p, q),
                         point |-> Point2i_sub(p, Point2i_from(q)),
                         back_tuple |->
                             Vector2i_add_tuple(Point2i_sub_tuple(p, q), q),
                         back_point |->
                             Point2i_add(Point2i_from(q),
                                         Point2i_sub(p, Point2i_from(q)))]
    /\ op' = "point2i_sub_tuple"

NextConv == Point2fFromArray \/ Point2uFromArray \/ Point2iSubTuple

SpecConv == InitConv /\ [][NextConv]_vars

\* C29: converting the array [x, y] into a Point2f, and into a Point2u,
\* yields the point with components (x, y): point -> array -> point is the
\* identity, and [x, y] given to transform_point or contains_point means the
\* same as the tuple (x, y).
C29_ArrayConversionKeepsComponents ==
    /\ op = "point2f_from_array"
          => /\ out.from_array = Point2f(R(in.x), R(in.y))
             /\ out.from_array = out.from_tuple
             /\ out.round_trip = Point2f(R(in.x), R(in.y))
             /\ out.transformed_array = out.transformed_tuple
             /\ out.contained_array = out.contained_tuple
    /\ op = "point2u_from_array"
          => /\ out.from_array = Point2u(in.x, in.y)
             /\ out.from_array = out.from_tuple
             /\ out.round_trip = Point2u(in.x, in.y)

\* C30: for every Point2i p and all integers x, y, p - (x, y) equals
\* p - Point2i::from((x, y)), which is Vector2i(p.x - x, p.y - y), so that
\* q + (p - q) = p however q is written.
C30_SubTupleIsSubPoint ==
    op = "point2i_sub_tuple"
        => /\ out.tuple = out.point
           /\ out.tuple = Vector2i(in.p.x - in.x, in.p.y - in.y)
           /\ out.back_tuple = in.p
           /\ out.back_point = in.p

====
